---- MODULE Spec2Model ----
(***************************************************************************)
(* The contract deployment page of the asset tokenization kit:             *)
(* app/architect/deploy/page.tsx (the orchestrator) and its step           *)
(* components StepEstimate, StepApproval, StepConfirm, StepSaveAddress,    *)
(* ContractsList, WalletGuard and ErrorCard.                               *)
(*                                                                         *)
(* The page is a React component: its state is a set of useState cells,    *)
(* its handlers are closures over the cells of the render that created     *)
(* them, and every external call (gas estimate, wallet request, receipt    *)
(* wait, persistence POST) is a promise that resolves in a later task and  *)
(* then calls the handler it captured, whether or not the step that        *)
(* issued it is still mounted.                                             *)
(*                                                                         *)
(* Beside the page (Spec, HappySpec) the module holds the two routes that  *)
(* persist an address, save-address-local (LocalSpec) and                  *)
(* save-address-github (GithubSpec), their upsertEnvVar (UpsertSpec) and   *)
(* the PropertyToken contract (TokenSpec).  Each specification moves its   *)
(* own variables and leaves the others as Init set them.                   *)
(***************************************************************************)
EXTENDS Integers, Sequences, FiniteSets, TLC

(* ------------------------------------------------------------------ *)
(* Values                                                             *)
(* ------------------------------------------------------------------ *)

\* A nullable cell holds None (null) or Some(v).
None == <<>>
Some(v) == <<v>>
IsSome(x) == x # None
Get(x) == x[1]

\* wagmi/chains sepolia: the expected chain.
sepolia == [id |-> 11155111]
\* The chain ids the wallet and the RPC client may report.
ChainIds == {sepolia.id, 1}

\* loadCompiledContracts: the artifact names the page asks for, in order.
names == <<"PropertyTokenFactory", "MockUSDT">>
Names == {names[i] : i \in 1..Len(names)}

\* At most this many external calls are in flight at once.
MaxInFlight == 2
\* The constructor of a loaded ABI declares at most this many inputs.
MaxCtorInputs == 1

\* The values the chain client returns for a gas estimate and a gas price.
GasUnits == {3}
GasPrices == {5}
\* The values a receipt carries for gasUsed and effectiveGasPrice.
GasUsed == {2}
EffectiveGasPrices == {7}

\* DeployPhase.
DeployPhase == {"idle", "estimating", "awaiting_approval", "deploying",
                "confirming", "saving", "success", "error"}
\* The phases in which the page reports a deployment in flight (isDeploying).
InFlightPhases == {"estimating", "awaiting_approval", "deploying",
                   "confirming", "saving"}

\* A compiled artifact as the compiled-contract endpoint returns it: its name,
\* the number of inputs of the ABI's constructor entry and whether the
\* creation bytecode is at least 10 characters long.
Artifacts == [name : Names, inputs : 0..MaxCtorInputs, longBytecode : BOOLEAN]

\* The transaction hash of a creation transaction carrying the bytecode of
\* artifact n, and the address of the contract that transaction creates.
HashOf(n) == [tx |-> n]
AddressOf(h) == [created |-> h.tx]

VARIABLES
  web3,        \* useWeb3Status / usePublicClient / useBalance (hook outputs)
  page,        \* the useState cells of ArchitectDeployPage
  approval,    \* the local state of the mounted StepApproval
  calls,       \* external calls in flight, with what each captured
  deployAllRun,\* the position of a running deployAll loop and its closure
  attempt,     \* history: an Estimate call of the current attempt resolved
  last,        \* history: the handler that ran last, and its outcome
  envFile,     \* an env file under a sequence of upsertEnvVar calls
  localRoute,  \* save-address-local: the file on disk and the requests
  githubRoute, \* save-address-github: the file in the repository, requests
  token        \* PropertyToken: the storage of one deployed contract

\* The state of the deploy page.
pageVars == <<web3, page, approval, calls, deployAllRun, attempt, last>>

vars == <<web3, page, approval, calls, deployAllRun, attempt, last, envFile,
         localRoute, githubRoute, token>>

(* ------------------------------------------------------------------ *)
(* ArchitectDeployPage: derived values                                *)
(* ------------------------------------------------------------------ *)

hasBalance(w) == w.balance > 0

\* contracts.find(c => c.name === name)
Find(p, n) == {i \in 1..Len(p.contracts) : p.contracts[i].name = n}
Found(p, n) == p.contracts[CHOOSE i \in Find(p, n) : TRUE]

allDeployed(p) ==
  /\ Len(p.contracts) > 0
  /\ \A i \in 1..Len(p.contracts) : IsSome(p.deployed[p.contracts[i].name])

isDeploying(p) == p.phase \in InFlightPhases

estimatedCost(p) ==
  IF p.gasEstimate = None \/ p.gasPrice = None THEN None
  ELSE Some(Get(p.gasEstimate) * Get(p.gasPrice))

\* order, of mapPhase.
order == <<"idle", "estimating", "awaiting_approval", "deploying",
           "confirming", "saving", "success", "error">>

\* order.indexOf(ph), from 0; -1 when ph is not in order.
indexOf(ph) ==
  IF \E i \in 1..Len(order) : order[i] = ph
  THEN (CHOOSE i \in 1..Len(order) : order[i] = ph) - 1
  ELSE -1

\* mapPhase showing the step of the current phase as complete.
mapPhaseNoActive(target, current) ==
  LET t == indexOf(target)
      c == indexOf(current)
  IN IF c < 0 \/ t < 0 THEN "pending"
     ELSE IF c >= t \/ current = "success" THEN "complete"
     ELSE "pending"

mapPhase(target, current) ==
  LET t == indexOf(target)
      c == indexOf(current)
  IN IF c < 0 \/ t < 0 THEN "pending"
     ELSE IF c = t THEN (IF current = "error" THEN "error" ELSE "active")
     ELSE IF c > t \/ current = "success" THEN "complete"
     ELSE "pending"

\* steps: the status of the five steps of DeployProgress, in order.
steps(phase) ==
  <<mapPhase("estimating", phase), mapPhase("awaiting_approval", phase),
    mapPhase("deploying", phase), mapPhase("confirming", phase),
    mapPhase("saving", phase)>>

(* ------------------------------------------------------------------ *)
(* ArchitectDeployPage: handlers.  Each takes the cells (and hook     *)
(* outputs) of the render its closure was created in and gives the    *)
(* cells after the setState calls it makes.                           *)
(* ------------------------------------------------------------------ *)

\* The toast startDeploy shows at the guard that stops it ("" when none does).
StartDeployToast(p, w, n) ==
  IF Find(p, n) = {} THEN ""
  ELSE IF ~w.isConnected \/ ~w.address THEN "Please connect your wallet"
  ELSE IF w.chainId # sepolia.id THEN "Please switch to Sepolia"
  ELSE IF ~w.publicClient THEN "Public client not initialized"
  ELSE IF ~w.walletClient THEN "Wallet client not available. Please reconnect."
  ELSE IF ~hasBalance(w) THEN "Insufficient balance for gas"
  ELSE ""

\* startDeploy passes every guard.
StartDeployPasses(p, w, n) == Find(p, n) # {} /\ StartDeployToast(p, w, n) = ""

\* startDeploy without the balance guard.
startDeployNoBalanceGuard(p, w, n) ==
  IF Find(p, n) = {} \/ ~w.isConnected \/ ~w.address
     \/ w.chainId # sepolia.id \/ ~w.publicClient \/ ~w.walletClient
  THEN p
  ELSE [p EXCEPT !.currentName = Some(Found(p, n).name),
                 !.error = None,
                 !.phase = "estimating",
                 !.gasEstimate = None,
                 !.gasPrice = None,
                 !.txHash = None,
                 !.confirmed = None]

startDeploy(p, w, n) ==
  IF ~StartDeployPasses(p, w, n) THEN p
  ELSE [p EXCEPT !.currentName = Some(Found(p, n).name),
                 !.error = None,
                 !.phase = "estimating",
                 !.gasEstimate = None,
                 !.gasPrice = None,
                 !.txHash = None,
                 !.confirmed = None]

onEstimated(p, res) ==
  [p EXCEPT !.gasEstimate = Some(res.gasEstimate),
            !.gasPrice = Some(res.gasPrice),
            !.phase = "awaiting_approval"]

\* onApprovalSent with the first setPhase alone.
onApprovalSentDeploying(p, hash) ==
  [p EXCEPT !.txHash = Some(hash), !.phase = "deploying"]

\* setPhase('deploying') and setPhase('confirming') are batched in one
\* handler: only the last one is ever committed.
onApprovalSent(p, hash) ==
  [p EXCEPT !.txHash = Some(hash), !.phase = "confirming"]

\* onConfirmed entering the address in the registry as well.
onConfirmedRegisters(p, res) ==
  [p EXCEPT !.confirmed = Some(res), !.phase = "saving",
            !.deployed = IF p.currentName = None THEN @
                         ELSE [@ EXCEPT ![Get(p.currentName)] =
                                          res.contractAddress]]

onConfirmed(p, res) ==
  [p EXCEPT !.confirmed = Some(res), !.phase = "saving"]

\* onSaved reads currentName and confirmed of the render that created it
\* (cl), and writes through the functional setDeployed.
onSaved(p, cl) ==
  IF cl.currentName = None \/ cl.confirmed = None THEN p
  ELSE IF Get(cl.confirmed).contractAddress = None THEN p
  ELSE [p EXCEPT !.deployed[Get(cl.currentName)] =
                     Get(cl.confirmed).contractAddress,
                 !.phase = "success"]

\* onError without its setPhase.
onErrorMessageOnly(p, m) == [p EXCEPT !.error = Some(m)]

\* The onError every step is wired to.
onError(p, m) == [p EXCEPT !.error = Some(m), !.phase = "error"]

\* onRetry going back to idle.
onRetryToIdle(p) == [p EXCEPT !.error = None, !.phase = "idle"]

\* ErrorCard onRetry.
onRetry(p) ==
  IF IsSome(p.currentName)
  THEN [p EXCEPT !.error = None, !.phase = "estimating"]
  ELSE [p EXCEPT !.error = None]

(* ------------------------------------------------------------------ *)
(* What is rendered                                                   *)
(* ------------------------------------------------------------------ *)

\* WalletGuard (strict, the default): the children are rendered.
ready(w) == w.isConnected /\ w.address /\ w.chainId = sepolia.id

\* WalletGuard with prop strict: the children are in the rendered tree, as
\* the content when ready, dimmed below the guidance when not strict.
WalletGuardChildren(w, strict) == ready(w) \/ ~strict

ContractsListShown(p, w) == ready(w) /\ ~p.loadingContracts

\* DeployProgress is rendered.
ProgressShown(p, w) == ready(w) /\ IsSome(p.currentName) /\ p.phase # "idle"

\* ContractsList: the Deploy button of item n is rendered and enabled.
DeployButtonEnabled(p, w, n) ==
  /\ ContractsListShown(p, w)
  /\ Find(p, n) # {}
  /\ p.deployed[n] = None
  /\ LET disableDeploy ==
           ~w.isConnected \/ w.chainId # sepolia.id \/ ~hasBalance(w)
         isCurrent == p.currentName = Some(n)
     IN ~(disableDeploy \/ (isCurrent /\ isDeploying(p)))

DeployAllButtonEnabled(p, w) ==
  /\ ready(w)
  /\ Len(p.contracts) > 0 /\ ~allDeployed(p)
  /\ hasBalance(w) /\ w.chainId = sepolia.id
  /\ ~isDeploying(p)

ErrorCardShown(p, w) == ready(w) /\ IsSome(p.error)

EstimateMounted(p, w) ==
  /\ ready(w) /\ IsSome(p.currentName) /\ p.phase = "estimating"
  /\ w.address /\ w.publicClient

ApprovalMounted(p, w) ==
  /\ ready(w) /\ IsSome(p.currentName) /\ p.phase = "awaiting_approval"
  /\ w.walletClient

ConfirmMounted(p, w) ==
  /\ ready(w) /\ IsSome(p.currentName) /\ p.phase = "confirming"
  /\ w.publicClient /\ IsSome(p.txHash)

SaveMounted(p, w) ==
  /\ ready(w) /\ IsSome(p.currentName) /\ p.phase = "saving"
  /\ IsSome(p.confirmed) /\ IsSome(Get(p.confirmed).contractAddress)

(* ------------------------------------------------------------------ *)
(* External calls in flight                                           *)
(* ------------------------------------------------------------------ *)

\* The (name, address) pairs a persistence POST may carry.
SaveKeys == Names \X Names

NoCalls ==
  [estimate  |-> 0,                       \* estimateGas/getGasPrice, this attempt
   estimateOld |-> 0,                     \* the same, issued by an earlier attempt
   approve   |-> [n \in Names |-> 0],     \* deployContract, by bytecode sent
   sendTransaction |-> [n \in Names |-> 0], \* fallbackSendCreation, likewise
   eip1193   |-> [n \in Names |-> 0],     \* fallbackEip1193Send, likewise
   receipt   |-> [n \in Names |-> 0],     \* waitForTransactionReceipt, by hash
   save      |-> [k \in SaveKeys |-> 0]]  \* POSTs, by <<contractName, creator>>

RECURSIVE SumOver(_, _)
SumOver(f, S) ==
  IF S = {} THEN 0
  ELSE LET x == CHOOSE y \in S : TRUE IN f[x] + SumOver(f, S \ {x})

InFlight(c) ==
  c.estimate + c.estimateOld + SumOver(c.approve, Names)
    + SumOver(c.sendTransaction, Names) + SumOver(c.eip1193, Names)
    + SumOver(c.receipt, Names) + SumOver(c.save, SaveKeys)

WithinBounds(c) == InFlight(c) <= MaxInFlight

\* The parent rendered again with something changed: every callback prop
\* (onEstimated, onError, onConfirmed) is a new function, so the useCallback
\* and the auto-run useEffect that depend on it run again.
Rerendered(p, w, p2, w2) == <<p, w>> # <<p2, w2>>

\* StepEstimate: the auto-run effect calls runEstimate.
EstimateRuns(p, w, p2, w2) ==
  EstimateMounted(p2, w2) /\ Rerendered(p, w, p2, w2)

\* StepConfirm: the auto-run effect calls waitReceipt, which returns at once
\* when txHash is null.
ConfirmRuns(p, w, p2, w2) ==
  /\ ConfirmMounted(p2, w2) /\ Rerendered(p, w, p2, w2)
  /\ IsSome(p2.txHash)

\* StepSaveAddress: the auto-run runs save while status is idle, that is on
\* the first render of a mounted step; save returns at once without address.
SaveRuns(p, w, p2, w2) ==
  /\ SaveMounted(p2, w2) /\ ~SaveMounted(p, w)
  /\ IsSome(Get(p2.confirmed).contractAddress)

SaveKeyOf(p) ==
  <<Get(p.currentName), Get(Get(p.confirmed).contractAddress).created>>

\* The calls in flight after the render that follows a handler: c holds the
\* calls the handler itself left in flight.
Effects(p, w, p2, w2, c) ==
  LET c1 == IF EstimateRuns(p, w, p2, w2)
            THEN [c EXCEPT !.estimate = @ + 1] ELSE c
      c2 == IF ConfirmRuns(p, w, p2, w2)
            THEN [c1 EXCEPT !.receipt[Get(p2.txHash).tx] = @ + 1] ELSE c1
      c3 == IF SaveRuns(p, w, p2, w2)
            THEN [c2 EXCEPT !.save[SaveKeyOf(p2)] = @ + 1] ELSE c2
  IN c3

(* ------------------------------------------------------------------ *)
(* StepApproval: local state                                          *)
(* ------------------------------------------------------------------ *)

\* status, actualChainId, whether the getChainId read of the chain id
\* effect is still pending (and alive), and the chain the RPC client of the
\* mounted step is on (None while no step is mounted).
ApprovalIdle == [status |-> "idle", actualChainId |-> None, reading |-> FALSE,
                 rpcChainId |-> None]

\* The chain id effect, run on mount and when publicClient changes.
ChainIdEffect(a, w) ==
  IF w.publicClient THEN [a EXCEPT !.reading = TRUE]
  ELSE [a EXCEPT !.actualChainId = Some(sepolia.id), !.reading = FALSE]

\* The local state after the render that follows a handler: a is the local
\* state the handler itself left, id the chain the RPC client is on when the
\* step mounts.
ApprovalAfter(p, w, p2, w2, a, id) ==
  IF ~ApprovalMounted(p2, w2) THEN ApprovalIdle
  ELSE IF ~ApprovalMounted(p, w)
  THEN ChainIdEffect([ApprovalIdle EXCEPT !.rpcChainId = Some(id)], w2)
  ELSE IF w.publicClient # w2.publicClient THEN ChainIdEffect(a, w2)
  ELSE a

\* precheck without the comparison of the argument count.
precheckNoArgs(p, w, a) ==
  LET art == Found(p, Get(p.currentName))
  IN  (IF ~w.walletClient THEN {"wallet"} ELSE {})
      \cup (IF ~w.address THEN {"address"} ELSE {})
      \cup (IF IsSome(a.actualChainId) /\ Get(a.actualChainId) # sepolia.id
            THEN {"network"} ELSE {})
      \cup (IF ~art.longBytecode THEN {"bytecode"} ELSE {})

\* precheck: the issues found, as the set of their kinds.
precheck(p, w, a) ==
  LET art == Found(p, Get(p.currentName))
      args == <<>>   \* the page passes constructorArgs={[]}
  IN  (IF ~w.walletClient THEN {"wallet"} ELSE {})
      \cup (IF ~w.address THEN {"address"} ELSE {})
      \cup (IF IsSome(a.actualChainId) /\ Get(a.actualChainId) # sepolia.id
            THEN {"network"} ELSE {})
      \cup (IF art.inputs # Len(args) THEN {"args"} ELSE {})
      \cup (IF ~art.longBytecode THEN {"bytecode"} ELSE {})

\* The text precheck pushes for an issue of kind k.
IssueText(k, p, a) ==
  CASE k = "wallet" -> "Wallet client is not connected"
    [] k = "address" -> "Deployer address is empty"
    [] k = "network" ->
         "Wrong network: expected Sepolia (" \o ToString(sepolia.id)
         \o "), got " \o ToString(Get(a.actualChainId))
    [] k = "args" ->
         "Constructor args mismatch: expected "
         \o ToString(Found(p, Get(p.currentName)).inputs)
         \o ", provided 0"
    [] k = "bytecode" -> "Invalid bytecode: missing 0x prefix or too short"

\* precheck.issues.join('; '), the issues in the order precheck pushes them.
RECURSIVE JoinIssues(_, _, _, _)
JoinIssues(kinds, issues, p, a) ==
  IF kinds = <<>> THEN ""
  ELSE LET rest == JoinIssues(Tail(kinds), issues, p, a)
       IN IF Head(kinds) \notin issues THEN rest
          ELSE IF rest = "" THEN IssueText(Head(kinds), p, a)
          ELSE IssueText(Head(kinds), p, a) \o "; " \o rest

precheckMessage(issues, p, a) ==
  JoinIssues(<<"wallet", "address", "network", "args", "bytecode">>,
             issues, p, a)

(* ------------------------------------------------------------------ *)
(* deployAll                                                          *)
(* ------------------------------------------------------------------ *)

\* No loop is running.  A running loop holds the index it waits on and the
\* phase and deployed map of the render whose button was clicked: the loop,
\* waitForFinish and the startDeploy it calls are closures of that render.
NoRun == [active |-> FALSE, i |-> 0, phase |-> "idle",
          deployed |-> [n \in Names |-> None]]

\* The next index after i whose artifact the closure does not see deployed
\* (0 when there is none).
NextUndeployed(p, d, i) ==
  LET S == {j \in (i+1)..Len(p.contracts) : d[p.contracts[j].name] = None}
  IN IF S = {} THEN 0 ELSE CHOOSE j \in S : \A k \in S : j <= k

(* ------------------------------------------------------------------ *)
(* The save-address routes: the env file                              *)
(* ------------------------------------------------------------------ *)

\* The contract names a save request may carry.
SavedNames == Names \cup {"Mock USDT", "Mock_USDT"}

\* sanitizeNameToEnvKey: the name trimmed, every character outside
\* a-zA-Z0-9 replaced by _, in upper case, between NEXT_PUBLIC_ and
\* _CONTRACT.
sanitizeNameToEnvKey(name) ==
  CASE name = "PropertyTokenFactory"
         -> "NEXT_PUBLIC_PROPERTYTOKENFACTORY_CONTRACT"
    [] name = "MockUSDT" -> "NEXT_PUBLIC_MOCKUSDT_CONTRACT"
    [] name = "Mock USDT" -> "NEXT_PUBLIC_MOCK_USDT_CONTRACT"
    [] name = "Mock_USDT" -> "NEXT_PUBLIC_MOCK_USDT_CONTRACT"

EnvKeys == {sanitizeNameToEnvKey(n) : n \in SavedNames}

\* Addresses that pass isValidAddress (0x and 40 hex digits).
EnvValues == {"0x1111111111111111111111111111111111111111",
              "0x2222222222222222222222222222222222222222"}

\* At most this many upsertEnvVar calls are applied to one file in a row.
MaxUpserts == 5

\* The content of an env file: its lines KEY=value in order, and whether
\* the last line ends with a newline.  The empty string has no line.
Line(key, value) == [key |-> key, value |-> value]
EmptyContent == [lines |-> <<>>, nl |-> FALSE]

\* The first line the regular expression ^key=.*$ (flag m) matches, 0 when
\* re.test(content) is false.
firstMatch(content, key) ==
  IF \E i \in 1..Len(content.lines) : content.lines[i].key = key
  THEN CHOOSE i \in 1..Len(content.lines) :
         /\ content.lines[i].key = key
         /\ \A j \in 1..(i - 1) : content.lines[j].key # key
  ELSE 0

\* content + sep + line + newline: with the separator "" after a last line
\* that has no newline the new text continues that line.
appendLine(content, sep, line) ==
  IF Len(content.lines) > 0 /\ ~content.nl /\ sep = ""
  THEN [lines |-> [content.lines EXCEPT ![Len(content.lines)].value =
                     @ \o line.key \o "=" \o line.value],
        nl |-> TRUE]
  ELSE [lines |-> Append(content.lines, line), nl |-> TRUE]

\* upsertEnvVar without the replacement of a matching line.
upsertEnvVarAppendOnly(content, key, value) ==
  LET sep == IF content.nl \/ Len(content.lines) = 0 THEN "" ELSE "\n"
  IN appendLine(content, sep, Line(key, value))

upsertEnvVar(content, key, value) ==
  LET line == Line(key, value)
      i == firstMatch(content, key)
      sep == IF content.nl \/ Len(content.lines) = 0 THEN "" ELSE "\n"
  IN IF i > 0 THEN [content EXCEPT !.lines[i] = line]
     ELSE appendLine(content, sep, line)

\* The lines of the content that set key.
linesOf(content, key) ==
  SelectSeq(content.lines, LAMBDA l : l.key = key)

\* The requests a route may be serving at once.
Requests == {1, 2}

\* A request nobody has sent yet.
NoRequest ==
  [pc |-> "none", name |-> "", address |-> "", current |-> EmptyContent,
   status |-> 0]

\* The file of the repository as the Contents API reports it: its content
\* and the sha of its blob, here the number of commits that wrote it; no
\* file yet is sha 0.
NoFile == [content |-> EmptyContent, sha |-> 0]

\* What ghGet returns: 404 gives the empty content and no sha.
Fetched(content, sha) == [content |-> content, sha |-> sha]
NothingFetched == Fetched(EmptyContent, None)

NoGithubRequest ==
  [pc |-> "none", name |-> "", address |-> "", first |-> NothingFetched,
   latest |-> NothingFetched, puts |-> 0, status |-> 0]

\* Commits to the file by writers other than the route.
MaxCommits == 2

(* ------------------------------------------------------------------ *)
(* PropertyToken.sol                                                  *)
(* ------------------------------------------------------------------ *)

\* uint256 with the word shortened: the largest value of the type.
\* Arithmetic is checked (Solidity 0.8): a result outside 0..MaxUint
\* reverts the call.
MaxUint == 3
Uints == 0..MaxUint

\* 1e18, the divisor of buy, at the size of the shortened word.
WAD == 2

\* The constructor arguments _maxSupply and _pricePerTokenUSDT, and the
\* amounts an account approves.
MaxSupplies == {2, MaxUint}
Prices == {1, 2}
Approvals == {0, 2}

\* The accounts that call the contract, and address(0).
Accounts == {"owner", "investor"}
ZeroAddress == "0x0"
Addresses == Accounts \cup {ZeroAddress}

\* The storage before the constructor ran, and what the last call was:
\* its function, whether it asked for more than the remaining supply and
\* whether it reverted.
NoToken ==
  [deployed |-> FALSE, totalSupply |-> 0, maxSupply |-> 0,
   pricePerTokenUSDT |-> 0, owner |-> ZeroAddress, paused |-> FALSE,
   balanceOf |-> [a \in Addresses |-> 0],
   allowance |-> [a \in Accounts |-> [b \in Accounts |-> 0]],
   last |-> [op |-> "", exceeds |-> FALSE, reverted |-> FALSE]]

\* The outcome of a call: a revert leaves the storage as it was.
Reverts(t) == [reverted |-> TRUE, t |-> t]
Returns(t) == [reverted |-> FALSE, t |-> t]

\* balanceOf[to] += amount after the storage writes in t, checked.
credit(old, t, to, amount) ==
  IF t.balanceOf[to] + amount > MaxUint THEN Reverts(old)
  ELSE Returns([t EXCEPT !.balanceOf[to] = @ + amount])

constructor(t, maxSupply, price, usdt, treasury, owner) ==
  IF maxSupply = 0 \/ owner = ZeroAddress \/ usdt = ZeroAddress
     \/ treasury = ZeroAddress
  THEN Reverts(t)
  ELSE Returns([t EXCEPT !.deployed = TRUE, !.maxSupply = maxSupply,
                  !.pricePerTokenUSDT = price, !.owner = owner,
                  !.paused = FALSE])

approve(t, sender, spender, amount) ==
  IF spender = ZeroAddress THEN Reverts(t)
  ELSE Returns([t EXCEPT !.allowance[sender][spender] = amount])

transfer(t, sender, to, amount) ==
  IF t.paused \/ to = ZeroAddress \/ t.balanceOf[sender] < amount
  THEN Reverts(t)
  ELSE credit(t, [t EXCEPT !.balanceOf[sender] = @ - amount], to, amount)

transferFrom(t, sender, from, to, amount) ==
  IF t.paused \/ from = ZeroAddress \/ to = ZeroAddress THEN Reverts(t)
  ELSE IF t.balanceOf[from] < amount \/ t.allowance[from][sender] < amount
  THEN Reverts(t)
  ELSE credit(t, [t EXCEPT !.allowance[from][sender] = @ - amount,
                     !.balanceOf[from] = @ - amount], to, amount)

\* mint without the require on maxSupply.
mintUncapped(t, sender, to, amount) ==
  IF sender # t.owner \/ t.paused \/ to = ZeroAddress THEN Reverts(t)
  ELSE IF t.totalSupply + amount > MaxUint THEN Reverts(t)
  ELSE credit(t, [t EXCEPT !.totalSupply = @ + amount], to, amount)

mint(t, sender, to, amount) ==
  IF sender # t.owner \/ t.paused \/ to = ZeroAddress THEN Reverts(t)
  ELSE IF t.totalSupply + amount > MaxUint THEN Reverts(t)
  ELSE IF t.totalSupply + amount > t.maxSupply THEN Reverts(t)
  ELSE credit(t, [t EXCEPT !.totalSupply = @ + amount], to, amount)

pause(t, sender) ==
  IF sender # t.owner THEN Reverts(t) ELSE Returns([t EXCEPT !.paused = TRUE])

unpause(t, sender) ==
  IF sender # t.owner THEN Reverts(t) ELSE Returns([t EXCEPT !.paused = FALSE])

\* usdt.transferFrom as MockUSDT implements it and as IERC20 declares it:
\* it returns true, returns false, or reverts (balance or allowance of the
\* buyer too low), and calls no other contract.
PaymentOutcomes == {"true", "false", "reverts"}

buy(t, sender, amountTokens, payment) ==
  IF t.paused \/ amountTokens = 0 THEN Reverts(t)
  ELSE IF t.totalSupply + amountTokens > MaxUint THEN Reverts(t)
  ELSE IF t.totalSupply + amountTokens > t.maxSupply THEN Reverts(t)
  ELSE IF t.pricePerTokenUSDT = 0 THEN Reverts(t)
  ELSE IF amountTokens * t.pricePerTokenUSDT > MaxUint THEN Reverts(t)
  ELSE IF (amountTokens * t.pricePerTokenUSDT) \div WAD = 0 THEN Reverts(t)
  ELSE IF payment # "true" THEN Reverts(t)
  ELSE credit(t, [t EXCEPT !.totalSupply = @ + amountTokens], sender,
              amountTokens)

(* ------------------------------------------------------------------ *)
(* Initial state                                                      *)
(* ------------------------------------------------------------------ *)

\* The balances useBalance may report.
Balances == {0, 1}

\* The artifacts the compiled-contract endpoint may answer with for name n:
\* the factory's ABI with or without constructor inputs, MockUSDT's without
\* (its constructor takes none), the bytecode long.
Loadable(n) ==
  {a \in Artifacts :
     /\ a.name = n /\ a.longBytecode
     /\ (n = names[2] => a.inputs = 0)}

\* What loadCompiledContracts may end with: each fetch answered or not.
ContractLists ==
  {<<>>} \cup {<<a>> : a \in Loadable(names[1]) \cup Loadable(names[2])}
         \cup {<<a, b>> : a \in Loadable(names[1]), b \in Loadable(names[2])}

\* What the hooks may report.  The hook outputs do not change within a
\* behaviour: a session is followed from the render in which they settled.
Web3States ==
  [isConnected : BOOLEAN, address : BOOLEAN, chainId : ChainIds,
   publicClient : BOOLEAN, walletClient : BOOLEAN, balance : Balances]

Init ==
  /\ web3 \in Web3States
  /\ page = [contracts |-> <<>>, loadingContracts |-> TRUE,
             phase |-> "idle", currentName |-> None, error |-> None,
             gasEstimate |-> None, gasPrice |-> None,
             txHash |-> None, confirmed |-> None,
             deployed |-> [n \in Names |-> None]]
  /\ approval = ApprovalIdle
  /\ calls = NoCalls
  /\ deployAllRun = NoRun
  /\ attempt = [estimated |-> FALSE]
  /\ last = [op |-> "mount", arg |-> "", out |-> ""]
  /\ envFile = [content |-> EmptyContent,
                upserted |-> [k \in EnvKeys |-> None],
                count |-> 0]
  /\ localRoute = [content |-> EmptyContent,
                   reqs |-> [r \in Requests |-> NoRequest]]
  /\ githubRoute = [file |-> NoFile, commits |-> 0,
                    reqs |-> [r \in Requests |-> NoGithubRequest]]
  /\ token = NoToken

(* ------------------------------------------------------------------ *)
(* Steps                                                              *)
(* ------------------------------------------------------------------ *)

\* The chains the RPC client may be on when StepApproval mounts (the id is
\* not looked at by a render that mounts nothing).
RpcChains(p, w, p2, w2) ==
  IF ApprovalMounted(p2, w2) /\ ~ApprovalMounted(p, w)
  THEN ChainIds ELSE {sepolia.id}

\* A handler has run: the cells are p2, the hook outputs w2; the render that
\* follows mounts and unmounts the steps and runs their effects.
Commit(p2, w2, c, a, d, att, l) ==
  /\ page' = p2
  /\ web3' = w2
  /\ calls' = Effects(page, web3, p2, w2, c)
  /\ WithinBounds(calls')
  /\ \E id \in RpcChains(page, web3, p2, w2) :
       approval' = ApprovalAfter(page, web3, p2, w2, a, id)
  /\ deployAllRun' = d
  /\ attempt' = att
  /\ last' = l
  /\ UNCHANGED <<envFile, localRoute, githubRoute, token>>

\* A new deployment attempt begins: the estimate calls still in flight
\* belong to an earlier attempt from now on.
Age(c) == [c EXCEPT !.estimateOld = @ + c.estimate, !.estimate = 0]
NewAttempt == [estimated |-> FALSE]

Did(op, arg, out) == [op |-> op, arg |-> arg, out |-> out]

\* loadCompiledContracts resolves (each fetch answered or not).
LoadCompiledContracts ==
  /\ page.loadingContracts
  /\ \E list \in ContractLists :
       Commit([page EXCEPT !.contracts = list, !.loadingContracts = FALSE],
              web3, calls, approval, deployAllRun, attempt,
              Did("loadCompiledContracts", "", ""))

\* The outcome a call of startDeploy reports.
Outcome(p, w, n) ==
  IF StartDeployPasses(p, w, n) THEN "started" ELSE StartDeployToast(p, w, n)

\* startDeploy(n) is called with the hook outputs w of its closure.
CallStartDeploy(w, n, d, op) ==
  LET ok == StartDeployPasses(page, w, n)
  IN Commit(startDeploy(page, w, n), web3,
            IF ok THEN Age(calls) ELSE calls,
            approval, d,
            IF ok THEN NewAttempt ELSE attempt,
            Did(op, n, Outcome(page, w, n)))

\* ContractsList: a click on the Deploy button of item n.
DeployClick(n) ==
  /\ DeployButtonEnabled(page, web3, n)
  /\ CallStartDeploy(web3, n, deployAllRun, "startDeploy")

\* A click on Deploy All: deployAll runs up to its first await.
DeployAllClick ==
  /\ DeployAllButtonEnabled(page, web3)
  /\ ~deployAllRun.active
  /\ LET j == NextUndeployed(page, page.deployed, 0)
     IN IF j = 0
        THEN Commit(page, web3, calls, approval, NoRun, attempt,
                    Did("deployAll", "", "done"))
        ELSE CallStartDeploy(web3, page.contracts[j].name,
               [active |-> TRUE, i |-> j, phase |-> page.phase,
                deployed |-> page.deployed],
               "deployAll")

\* The interval of waitForFinish fires: it reads the phase of the closure;
\* when that lets it resolve, deployAll goes on to its next await or ends.
DeployAllTick ==
  /\ deployAllRun.active
  /\ LET d == deployAllRun
         j == NextUndeployed(page, d.deployed, d.i)
     IN IF d.phase \notin {"success", "error", "idle"}
        THEN Commit(page, web3, calls, approval, d, attempt,
                    Did("waitForFinish", "", "waiting"))
        ELSE IF d.phase = "error"
        THEN Commit(page, web3, calls, approval, NoRun, attempt,
                    Did("deployAll", "", "break"))
        ELSE IF j = 0
        THEN Commit(page, web3, calls, approval, NoRun, attempt,
                    Did("deployAll", "", "done"))
        ELSE CallStartDeploy(web3, page.contracts[j].name,
                             [d EXCEPT !.i = j], "deployAll")

\* ErrorCard: a click on Retry.
RetryClick ==
  /\ ErrorCardShown(page, web3)
  /\ LET again == IsSome(page.currentName)
     IN Commit(onRetry(page), web3,
               IF again THEN Age(calls) ELSE calls,
               approval, deployAllRun,
               IF again THEN NewAttempt ELSE attempt,
               Did("onRetry", "", ""))

\* What a failed call throws: its shortMessage, message and details ("" for
\* one that is absent).
Thrown(short, msg, details) ==
  [shortMessage |-> short, message |-> msg, details |-> details]
NoMessage == Thrown("", "", "")
RejectedMessage == "User rejected the request."
Rejection == Thrown(RejectedMessage, "", "")

\* e?.shortMessage || e?.message || fallback
messageOr(e, fallback) ==
  IF e.shortMessage # "" THEN e.shortMessage
  ELSE IF e.message # "" THEN e.message
  ELSE fallback

\* EstimateResult with a cost buffered by 20%.
EstimateResultBuffered(gas, price) ==
  [gasEstimate |-> gas, gasPrice |-> price,
   estimatedCost |-> (gas * price * 12) \div 10]

\* The StepEstimateResult runEstimate emits for gas units gas and price price.
EstimateResult(gas, price) ==
  [gasEstimate |-> gas, gasPrice |-> price, estimatedCost |-> gas * price]

\* runEstimate after its awaits: r is what estimateGas and getGasPrice gave.
runEstimate(p, r) ==
  IF r.ok
  THEN onEstimated(p, EstimateResult(r.gas, r.price))
  ELSE onError(p, messageOr(r.err,
                            "Failed to estimate gas. Please try again."))

EstimateResults ==
  [ok : {TRUE}, gas : GasUnits, price : GasPrices]
  \cup {[ok |-> FALSE, gas |-> 0, price |-> 0, err |-> NoMessage]}

\* An estimate call in flight settles with a result of R (cur: it was
\* issued by this attempt).
EstimateSettlesWith(R) ==
  \E cur \in BOOLEAN, r \in R :
    /\ IF cur THEN calls.estimate > 0 ELSE calls.estimateOld > 0
    /\ Commit(runEstimate(page, r), web3,
              IF cur THEN [calls EXCEPT !.estimate = @ - 1]
                     ELSE [calls EXCEPT !.estimateOld = @ - 1],
              approval, deployAllRun,
              IF cur THEN [attempt EXCEPT !.estimated = TRUE] ELSE attempt,
              Did(IF r.ok THEN "onEstimated" ELSE "StepEstimate.onError",
                  "", ""))

EstimateSettles == EstimateSettlesWith(EstimateResults)

\* What the getChainId read may give: a chain id, or None for a failure,
\* which the effect ignores.
ChainIdReads == {None} \cup {Some(id) : id \in ChainIds}

\* What the read of the mounted step may give: the chain its RPC client is
\* on, or a failure.
ChainIdReadsOf(a) == {None, a.rpcChainId}

\* The getChainId read of StepApproval settles with a result of R.
ChainIdSettlesWith(R) ==
  /\ approval.reading
  /\ \E r \in R \cap ChainIdReadsOf(approval) :
       Commit(page, web3, calls,
              [approval EXCEPT !.reading = FALSE,
                               !.actualChainId = IF r = None THEN @ ELSE r],
              deployAllRun, attempt, Did("getChainId", "", ""))

ChainIdSettles == ChainIdSettlesWith(ChainIdReads)

\* StepApproval: a click on START runs deploy up to its first await.  Past
\* its prechecks deploy reads the chain id no more, and START stays disabled
\* until the step is unmounted: the chain id and its read are dropped.
ApprovalStart ==
  /\ ApprovalMounted(page, web3)
  /\ approval.status \notin {"awaiting_signature", "opening_wallet"}
  /\ LET n == Get(page.currentName)
         issues == precheck(page, web3, approval)
     IN IF issues # {}
        THEN Commit(onError(page, precheckMessage(issues, page, approval)),
                    web3, calls,
                    [approval EXCEPT !.status = "precheck_failed"],
                    deployAllRun, attempt,
                    Did("StepApproval.deploy", n, "precheck_failed"))
        ELSE Commit(page, web3, [calls EXCEPT !.approve[n] = @ + 1],
                    [ApprovalIdle EXCEPT !.status = "awaiting_signature"],
                    deployAllRun, attempt,
                    Did("StepApproval.deploy", n, "awaiting_signature"))

\* How a wallet call may settle: with a hash, rejected by the user, failed
\* otherwise, or (deployContract) failed as a method the wallet does not
\* implement or has not available.
WalletOutcomes == {"sent", "rejected", "failed", "not_available"}
FallbackOutcomes == {"sent", "rejected", "failed"}

\* notAvailable holding for a rejection by the user as well.
notAvailableOrRejected(o) == o \in {"not_available", "rejected"}

\* notAvailable: the failure of deployContract that sends deploy down the
\* fallbacks.
notAvailable(o) == o = "not_available"

\* parts.join('\n\n')
RECURSIVE Joined(_)
Joined(parts) ==
  IF Len(parts) = 1 THEN parts[1]
  ELSE parts[1] \o "\n\n" \o Joined(Tail(parts))

normalizeDeployError(e) ==
  LET p1 == IF e.shortMessage # "" THEN <<e.shortMessage>> ELSE <<>>
      p2 == IF e.message # "" /\ (p1 = <<>> \/ p1[1] # e.message)
            THEN Append(p1, e.message) ELSE p1
      parts == IF e.details # "" THEN Append(p2, e.details) ELSE p2
  IN IF Len(parts) = 0
     THEN "Failed to send deploy transaction. Please try again."
     ELSE Joined(parts)

\* deploy after its awaits, for the request that carried the bytecode of n.
deploy(p, n, o) ==
  IF o = "sent" THEN onApprovalSent(p, HashOf(n))
  ELSE IF o = "rejected" THEN onError(p, normalizeDeployError(Rejection))
  ELSE IF o = "no_provider"
  THEN onError(p, normalizeDeployError(
                    Thrown("", "EIP-1193 provider not available on connector",
                           "")))
  ELSE onError(p, normalizeDeployError(NoMessage))

\* The deployContract call that carried the bytecode of n settles as one of
\* O: deploy goes on to fallbackSendCreation, or ends.
ApprovalSettlesWith(n, O) ==
  /\ calls.approve[n] > 0
  /\ \E o \in O :
       IF notAvailable(o)
       THEN Commit(page, web3,
                   [calls EXCEPT !.approve[n] = @ - 1,
                                 !.sendTransaction[n] = @ + 1],
                   approval, deployAllRun, attempt,
                   Did("fallbackSendCreation", n, o))
       ELSE Commit(deploy(page, n, o), web3,
                   [calls EXCEPT !.approve[n] = @ - 1],
                   approval, deployAllRun, attempt,
                   Did(IF o = "sent" THEN "onApprovalSent"
                       ELSE "StepApproval.onError", n, o))

ApprovalSettles(n) == ApprovalSettlesWith(n, WalletOutcomes)

\* The sendTransaction call of fallbackSendCreation settles: with a hash, or
\* with a failure, after which deploy goes on to fallbackEip1193Send, which
\* throws at once when the connector's provider has no request method.
SendCreationSettles(n) ==
  /\ calls.sendTransaction[n] > 0
  /\ \E o \in FallbackOutcomes :
     \E request \in IF o = "sent" THEN {TRUE} ELSE BOOLEAN :
       LET c == [calls EXCEPT !.sendTransaction[n] = @ - 1]
       IN IF o = "sent"
          THEN Commit(deploy(page, n, o), web3, c,
                      approval, deployAllRun, attempt,
                      Did("onApprovalSent", n, o))
          ELSE IF request
          THEN Commit(page, web3, [c EXCEPT !.eip1193[n] = @ + 1],
                      approval, deployAllRun, attempt,
                      Did("fallbackEip1193Send", n, o))
          ELSE Commit(deploy(page, n, "no_provider"), web3, c,
                      approval, deployAllRun, attempt,
                      Did("StepApproval.onError", n, "no_provider"))

\* The eth_sendTransaction request of fallbackEip1193Send settles.
Eip1193Settles(n) ==
  /\ calls.eip1193[n] > 0
  /\ \E o \in FallbackOutcomes :
       Commit(deploy(page, n, o), web3,
              [calls EXCEPT !.eip1193[n] = @ - 1],
              approval, deployAllRun, attempt,
              Did(IF o = "sent" THEN "onApprovalSent"
                  ELSE "StepApproval.onError", n, o))

\* The receipts waitForTransactionReceipt may give for hash h (ok: FALSE
\* when it throws, a timeout for one).
Receipts(h) ==
  [ok : {TRUE}, contractAddress : {None, Some(AddressOf(h))},
   gasUsed : GasUsed, effectiveGasPrice : EffectiveGasPrices]
  \cup {[ok |-> FALSE, contractAddress |-> None,
         gasUsed |-> 0, effectiveGasPrice |-> 0, err |-> NoMessage]}

\* waitReceipt without the check of the contract address.
waitReceiptAnyAddress(p, receipt) ==
  LET used == receipt.gasUsed
      price == receipt.effectiveGasPrice
  IN IF ~receipt.ok
     THEN onError(p, messageOr(receipt.err,
                   "Failed to confirm transaction. Please try again."))
     ELSE onConfirmed(p, [contractAddress |-> receipt.contractAddress,
                          gasUsed |-> used, effectiveGasPrice |-> price,
                          actualCost |-> used * price])

\* waitReceipt pricing the gas used at the price of the estimate.
waitReceiptEstimatePrice(p, receipt) ==
  LET addr == receipt.contractAddress
      used == receipt.gasUsed
      price == receipt.effectiveGasPrice
      cost == used * (IF IsSome(p.gasPrice) THEN Get(p.gasPrice) ELSE 0)
  IN IF ~receipt.ok
     THEN onError(p, messageOr(receipt.err,
                   "Failed to confirm transaction. Please try again."))
     ELSE IF addr = None
     THEN onError(p, "Contract address not found in receipt")
     ELSE onConfirmed(p, [contractAddress |-> addr, gasUsed |-> used,
                          effectiveGasPrice |-> price, actualCost |-> cost])

\* waitReceipt after its await.
waitReceipt(p, receipt) ==
  LET addr == receipt.contractAddress
      used == receipt.gasUsed
      price == receipt.effectiveGasPrice
      cost == used * price
  IN IF ~receipt.ok
     THEN onError(p, messageOr(receipt.err,
                   "Failed to confirm transaction. Please try again."))
     ELSE IF addr = None
     THEN onError(p, "Contract address not found in receipt")
     ELSE onConfirmed(p, [contractAddress |-> addr, gasUsed |-> used,
                          effectiveGasPrice |-> price, actualCost |-> cost])

\* The receipt wait for the hash of n's transaction settles with one of R.
ReceiptSettlesWith(n, R) ==
  /\ calls.receipt[n] > 0
  /\ \E r \in R :
       LET p2 == waitReceipt(page, r)
       IN Commit(p2, web3, [calls EXCEPT !.receipt[n] = @ - 1],
                 approval, deployAllRun, attempt,
                 Did(IF p2.phase = "saving" THEN "onConfirmed"
                     ELSE "StepConfirm.onError", n, ""))

ReceiptSettles(n) == ReceiptSettlesWith(n, Receipts(HashOf(n)))

\* process.env.NODE_ENV.
NodeEnvs == {"production", "development", "test"}

saveAddressLocal == "/api/contracts/save-address-local"
saveAddressGithub == "/api/contracts/save-address-github"

\* chooseDefaultEndpoint with the branches swapped.
chooseDefaultEndpointSwapped(env) ==
  IF env = "production" THEN saveAddressLocal ELSE saveAddressGithub

chooseDefaultEndpoint(env) ==
  IF env = "production" THEN saveAddressGithub ELSE saveAddressLocal

\* A POST body is [complete, validAddress]: whether it parses to an object
\* with contractName and address, whether the address is 0x and 40 hex digits.
Response(status, error) == [thrown |-> FALSE, status |-> status,
                            error |-> error]
\* Response.ok
Ok(res) == ~res.thrown /\ res.status \in 200..299

\* POST of save-address-local: works is whether reading and writing the
\* .env file succeed.
POSTLocal(env, body, works) ==
  IF ~body.complete THEN Response(400, "Missing contractName or address")
  ELSE IF env = "production"
  THEN Response(403, "Forbidden in production. "
                     \o "Use /api/contracts/save-address-github")
  ELSE IF ~body.validAddress
  THEN Response(400, "Invalid address format. Expected 0x + 40 hex chars")
  ELSE IF ~works THEN Response(500, "Unknown error")
  ELSE Response(200, "")

\* POST of save-address-github: works is whether GITHUB_TOKEN and
\* GITHUB_REPO are set and the GitHub calls succeed.
POSTGithub(env, body, works) ==
  IF ~body.complete THEN Response(400, "Missing contractName or address")
  ELSE IF env # "production"
  THEN Response(403, "Forbidden outside production. "
                     \o "Use /save-address-local in dev")
  ELSE IF ~body.validAddress
  THEN Response(400, "Invalid address format. Expected 0x + 40 hex chars")
  ELSE IF ~works THEN Response(500, "GitHub configuration missing")
  ELSE Response(200, "")

\* The body save posts: contractName and the address of the receipt.
SaveBody == [complete |-> TRUE, validAddress |-> TRUE]

\* How the fetch of save may end: answered by a server that works, answered
\* by one that fails, or not answered (fetch throws).
FetchOutcomes == {"ok", "server_error", "network"}

\* fetch(resolvedEndpoint, ...) with the server running under env.
Fetch(endpoint, env, o) ==
  IF o = "network" THEN [thrown |-> TRUE, status |-> 0, error |-> ""]
  ELSE IF endpoint = saveAddressLocal
  THEN POSTLocal(env, SaveBody, o = "ok")
  ELSE POSTGithub(env, SaveBody, o = "ok")

\* save after its await, for the POST of <<contractName, creator>> k: the
\* onSaved it calls is the one of the render that mounted the step, whose
\* currentName and confirmed are the props the POST was built from.
save(p, k, res) ==
  IF res.thrown
  THEN onError(p, messageOr(NoMessage,
                            "Failed to save address. Please retry."))
  ELSE IF ~Ok(res)
  THEN onError(p, messageOr(
         Thrown("", IF res.error # "" THEN res.error
                    ELSE "Failed to save address. Server returned "
                         \o ToString(res.status) \o ".", ""),
         "Failed to save address. Please retry."))
  ELSE onSaved(p, [currentName |-> Some(k[1]),
                   confirmed |->
                     Some([contractAddress |-> Some([created |-> k[2]])])])

\* The POST of k settles: the page was built and the server runs under one
\* NODE_ENV, and the fetch ends as one of O.
SaveSettlesWith(k, O) ==
  /\ calls.save[k] > 0
  /\ \E env \in NodeEnvs, o \in O :
       LET endpoint == chooseDefaultEndpoint(env)
           res == Fetch(endpoint, env, o)
       IN Commit(save(page, k, res), web3,
                 [calls EXCEPT !.save[k] = @ - 1],
                 approval, deployAllRun, attempt,
                 Did(IF Ok(res) THEN "onSaved" ELSE "StepSaveAddress.onError",
                     k[1], endpoint))

SaveSettles(k) == SaveSettlesWith(k, FetchOutcomes)

Next ==
  \/ LoadCompiledContracts
  \/ \E n \in Names : DeployClick(n)
  \/ DeployAllClick
  \/ DeployAllTick
  \/ RetryClick
  \/ EstimateSettles
  \/ ChainIdSettles
  \/ ApprovalStart
  \/ \E n \in Names : ApprovalSettles(n)
  \/ \E n \in Names : SendCreationSettles(n)
  \/ \E n \in Names : Eip1193Settles(n)
  \/ \E n \in Names : ReceiptSettles(n)
  \/ \E k \in SaveKeys : SaveSettles(k)

Spec == Init /\ [][Next]_vars

(* ------------------------------------------------------------------ *)
(* upsertEnvVar applied in sequence to a file that starts empty       *)
(* ------------------------------------------------------------------ *)

\* The page without a wallet: nothing of the page is rendered.
NoWallet ==
  [isConnected |-> FALSE, address |-> FALSE, chainId |-> 1,
   publicClient |-> FALSE, walletClient |-> FALSE, balance |-> 0]

UpsertInit == Init /\ web3 = NoWallet

\* content = upsertEnvVar(content, key, value).
Upsert(key, value) ==
  /\ envFile.count < MaxUpserts
  /\ envFile' = [content |-> upsertEnvVar(envFile.content, key, value),
                 upserted |-> [envFile.upserted EXCEPT ![key] = Some(value)],
                 count |-> envFile.count + 1]
  /\ UNCHANGED <<pageVars, localRoute, githubRoute, token>>

UpsertNext == \E key \in EnvKeys : \E value \in EnvValues : Upsert(key, value)

UpsertSpec == UpsertInit /\ [][UpsertNext]_vars

(* ------------------------------------------------------------------ *)
(* save-address-local: POST requests served concurrently              *)
(* ------------------------------------------------------------------ *)

LocalInit == Init /\ web3 = NoWallet

\* POST, steps 1 to 5: a complete body with a valid address outside
\* production passes the checks; the handler awaits the import of fs.
LocalPost(r, name, address) ==
  /\ localRoute.reqs[r].pc = "none"
  /\ Ok(POSTLocal("development",
                  [complete |-> TRUE, validAddress |-> TRUE], TRUE))
  /\ localRoute' = [localRoute EXCEPT
                      !.reqs[r] = [NoRequest EXCEPT !.pc = "read",
                                     !.name = name, !.address = address]]
  /\ UNCHANGED <<pageVars, envFile, githubRoute, token>>

\* POST, step 6: readFileUtf8Safe resolves with the content of the file
\* (the empty string when there is none); the handler goes on to step 7
\* and awaits mkdir.
LocalRead(r) ==
  /\ localRoute.reqs[r].pc = "read"
  /\ localRoute' = [localRoute EXCEPT
                      !.reqs[r].pc = "write",
                      !.reqs[r].current = localRoute.content]
  /\ UNCHANGED <<pageVars, envFile, githubRoute, token>>

\* POST, steps 7 to 10: nextContent is computed from what step 6 read;
\* writeFile replaces the file with it and the handler answers 200, or
\* writeFile throws and the handler answers 500.
LocalWrite(r, works) ==
  /\ localRoute.reqs[r].pc = "write"
  /\ LET req == localRoute.reqs[r]
         key == sanitizeNameToEnvKey(req.name)
         nextContent == upsertEnvVar(req.current, key, req.address)
     IN localRoute' =
          [content |-> IF works THEN nextContent ELSE localRoute.content,
           reqs |-> [localRoute.reqs EXCEPT
                       ![r].pc = "done",
                       ![r].status = IF works THEN 200 ELSE 500]]
  /\ UNCHANGED <<pageVars, envFile, githubRoute, token>>

LocalNext ==
  \/ \E r \in Requests : \E name \in SavedNames : \E address \in EnvValues :
       LocalPost(r, name, address)
  \/ \E r \in Requests : LocalRead(r)
  \/ \E r \in Requests : \E works \in BOOLEAN : LocalWrite(r, works)

LocalSpec == LocalInit /\ [][LocalNext]_vars

(* ------------------------------------------------------------------ *)
(* save-address-github: POST requests and other writers               *)
(* ------------------------------------------------------------------ *)

GithubInit == Init /\ web3 = NoWallet

Conflict == 409

\* ghGet: the content and sha of the file, 404 read as the empty content
\* without sha.
ghGet(file) ==
  IF file.sha = 0 THEN NothingFetched
  ELSE Fetched(file.content, Some(file.sha))

\* The Contents API on PUT: the file is created when there is none and no
\* sha is sent (201), replaced when the sha sent is the sha of the file
\* (200), refused with 422 when a file exists and no sha is sent and with
\* 409 when the sha sent is not the sha of the file; 503 when the API is
\* not available.  ghPut throws an error carrying the status unless r.ok.
ghPut(file, contentUtf8, sha, works) ==
  LET written == [content |-> contentUtf8, sha |-> file.sha + 1]
  IN IF ~works THEN [status |-> 503, file |-> file]
     ELSE IF sha = None
       THEN (IF file.sha = 0 THEN [status |-> 201, file |-> written]
             ELSE [status |-> 422, file |-> file])
     ELSE IF Get(sha) = file.sha THEN [status |-> 200, file |-> written]
     ELSE [status |-> Conflict, file |-> file]

\* The retry writing again what was computed from the first GET.
retryContentStale(req) ==
  upsertEnvVar(req.first.content, sanitizeNameToEnvKey(req.name), req.address)

\* next2: the upsert recomputed on the content fetched after the 409.
retryContent(req) ==
  upsertEnvVar(req.latest.content, sanitizeNameToEnvKey(req.name), req.address)

\* The handler answers.
Answered(req, status) == [req EXCEPT !.pc = "done", !.status = status]

\* POST, steps 1 to 4: a complete body with a valid address in production
\* with the configuration present; the handler awaits ghGet.
GithubPost(r, name, address) ==
  /\ githubRoute.reqs[r].pc = "none"
  /\ Ok(POSTGithub("production",
                   [complete |-> TRUE, validAddress |-> TRUE], TRUE))
  /\ githubRoute' = [githubRoute EXCEPT
                       !.reqs[r] = [NoGithubRequest EXCEPT !.pc = "get",
                                      !.name = name, !.address = address]]
  /\ UNCHANGED <<pageVars, envFile, localRoute, token>>

\* POST, step 5: ghGet resolves, or throws and the handler answers 500.
GithubGet(r, works) ==
  /\ githubRoute.reqs[r].pc = "get"
  /\ LET req == githubRoute.reqs[r]
     IN githubRoute' =
          [githubRoute EXCEPT
             !.reqs[r] = IF works
                         THEN [req EXCEPT !.pc = "put",
                                 !.first = ghGet(githubRoute.file)]
                         ELSE Answered(req, 500)]
  /\ UNCHANGED <<pageVars, envFile, localRoute, token>>

\* POST, steps 6 and 7: the upsert on what step 5 fetched is PUT with the
\* sha of step 5.  Success answers 200, a 409 leads to the refetch, any
\* other failure is rethrown and answered 500.
GithubPut(r, works) ==
  /\ githubRoute.reqs[r].pc = "put"
  /\ LET req == githubRoute.reqs[r]
         key == sanitizeNameToEnvKey(req.name)
         nextContent == upsertEnvVar(req.first.content, key, req.address)
         res == ghPut(githubRoute.file, nextContent, req.first.sha, works)
         put == [req EXCEPT !.puts = @ + 1]
     IN githubRoute' =
          [githubRoute EXCEPT
             !.file = res.file,
             !.reqs[r] = IF res.status \in {200, 201} THEN Answered(put, 200)
                         ELSE IF res.status = Conflict
                           THEN [put EXCEPT !.pc = "refetch"]
                         ELSE Answered(put, 500)]
  /\ UNCHANGED <<pageVars, envFile, localRoute, token>>

\* The catch of step 7, first await: ghGet resolves with the latest
\* content and sha, or throws and the handler answers 500.
GithubRefetch(r, works) ==
  /\ githubRoute.reqs[r].pc = "refetch"
  /\ LET req == githubRoute.reqs[r]
     IN githubRoute' =
          [githubRoute EXCEPT
             !.reqs[r] = IF works
                         THEN [req EXCEPT !.pc = "retry",
                                 !.latest = ghGet(githubRoute.file)]
                         ELSE Answered(req, 500)]
  /\ UNCHANGED <<pageVars, envFile, localRoute, token>>

\* The catch of step 7, second await: next2 is PUT with latest.sha.
\* Success answers 200; a failure, a second 409 included, is thrown out of
\* the catch block and answered 500.
GithubRetry(r, works) ==
  /\ githubRoute.reqs[r].pc = "retry"
  /\ LET req == githubRoute.reqs[r]
         res == ghPut(githubRoute.file, retryContent(req), req.latest.sha,
                      works)
         put == [req EXCEPT !.puts = @ + 1]
     IN githubRoute' =
          [githubRoute EXCEPT
             !.file = res.file,
             !.reqs[r] = IF res.status \in {200, 201} THEN Answered(put, 200)
                         ELSE Answered(put, 500)]
  /\ UNCHANGED <<pageVars, envFile, localRoute, token>>

\* Another writer commits a change of one line to the file.
OtherCommit(key, value) ==
  /\ githubRoute.commits < MaxCommits
  /\ githubRoute' =
       [githubRoute EXCEPT
          !.commits = @ + 1,
          !.file = [content |-> upsertEnvVar(@.content, key, value),
                    sha |-> @.sha + 1]]
  /\ UNCHANGED <<pageVars, envFile, localRoute, token>>

GithubNext ==
  \/ \E r \in Requests : \E name \in SavedNames : \E address \in EnvValues :
       GithubPost(r, name, address)
  \/ \E r \in Requests : \E works \in BOOLEAN : GithubGet(r, works)
  \/ \E r \in Requests : \E works \in BOOLEAN : GithubPut(r, works)
  \/ \E r \in Requests : \E works \in BOOLEAN : GithubRefetch(r, works)
  \/ \E r \in Requests : \E works \in BOOLEAN : GithubRetry(r, works)
  \/ \E key \in EnvKeys : \E value \in EnvValues : OtherCommit(key, value)

GithubSpec == GithubInit /\ [][GithubNext]_vars

(* ------------------------------------------------------------------ *)
(* PropertyToken: transactions of any caller                          *)
(* ------------------------------------------------------------------ *)

TokenInit == Init /\ web3 = NoWallet

\* The transaction is mined: the storage is what the call left, and the
\* storage before the call when it reverted.
Mined(op, exceeds, res) ==
  /\ token' = [res.t EXCEPT !.last = [op |-> op, exceeds |-> exceeds,
                                      reverted |-> res.reverted]]
  /\ UNCHANGED <<pageVars, envFile, localRoute, githubRoute>>

\* The call asks for more than maxSupply - totalSupply.
Exceeds(t, amount) == t.totalSupply + amount > t.maxSupply

Deploy(maxSupply, price, owner) ==
  /\ ~token.deployed
  /\ LET res == constructor(token, maxSupply, price, "usdt", "treasury", owner)
     IN /\ ~res.reverted
        /\ Mined("constructor", FALSE, res)

Approve(sender, spender, amount) ==
  /\ token.deployed
  /\ Mined("approve", FALSE, approve(token, sender, spender, amount))

Transfer(sender, to, amount) ==
  /\ token.deployed
  /\ Mined("transfer", FALSE, transfer(token, sender, to, amount))

TransferFrom(sender, from, to, amount) ==
  /\ token.deployed
  /\ Mined("transferFrom", FALSE,
           transferFrom(token, sender, from, to, amount))

Mint(sender, to, amount) ==
  /\ token.deployed
  /\ Mined("mint", Exceeds(token, amount), mint(token, sender, to, amount))

Pause(sender) ==
  /\ token.deployed
  /\ Mined("pause", FALSE, pause(token, sender))

Unpause(sender) ==
  /\ token.deployed
  /\ Mined("unpause", FALSE, unpause(token, sender))

Buy(sender, amount, payment) ==
  /\ token.deployed
  /\ Mined("buy", Exceeds(token, amount), buy(token, sender, amount, payment))

TokenNext ==
  \/ \E maxSupply \in MaxSupplies : \E price \in Prices :
       Deploy(maxSupply, price, "owner")
  \/ \E sender \in Accounts : \E spender \in Addresses :
     \E amount \in Approvals : Approve(sender, spender, amount)
  \/ \E sender \in Accounts : \E to \in Addresses : \E amount \in Uints :
       Transfer(sender, to, amount)
  \/ \E sender \in Accounts : \E from \in Addresses : \E to \in Addresses :
     \E amount \in Uints : TransferFrom(sender, from, to, amount)
  \/ \E sender \in Accounts : \E to \in Addresses : \E amount \in Uints :
       Mint(sender, to, amount)
  \/ \E sender \in Accounts : Pause(sender)
  \/ \E sender \in Accounts : Unpause(sender)
  \/ \E sender \in Accounts : \E amount \in Uints :
     \E payment \in PaymentOutcomes : Buy(sender, amount, payment)

TokenSpec == TokenInit /\ [][TokenNext]_vars

(* ------------------------------------------------------------------ *)
(* Mutual exclusion and Deploy All                                    *)
(* ------------------------------------------------------------------ *)

\* The step is a call of startDeploy that passed its guards, made by op.
Started(op) == last'.op = op /\ last'.out = "started"

\* The artifact the running deployAll loop started last.
LoopArtifact == page.contracts[deployAllRun.i].name

\* C1: while a deployment of X is in flight (estimating, awaiting_approval,
\* deploying, confirming or saving), no click on a Deploy button starts the
\* deployment of another artifact.
C1_NoSecondDeployment ==
  [][(isDeploying(page) /\ Started("startDeploy"))
       => page'.currentName = page.currentName]_vars

\* C2: when the deployment the Deploy All loop started has ended in phase
\* error, the loop does not call startDeploy for the artifact after it.
C2_DeployAllStopsOnError ==
  [][(/\ deployAllRun.active
      /\ page.currentName = Some(LoopArtifact)
      /\ page.phase = "error")
       => ~Started("deployAll")]_vars

\* C3: the Deploy All loop does not call startDeploy for the next artifact
\* until the deployment it started before has reached success or error.
C3_DeployAllOneAtATime ==
  [][(deployAllRun.active /\ Started("deployAll"))
       => (/\ page.currentName = Some(LoopArtifact)
           /\ page.phase \in {"success", "error"})]_vars

(* ------------------------------------------------------------------ *)
(* Phase changes                                                      *)
(* ------------------------------------------------------------------ *)

\* The phases from which a deployment may still fail.
NonTerminal == {"idle"} \cup InFlightPhases

\* The phase changes of the phase table.
Forward ==
  {<<"idle", "estimating">>,
   <<"estimating", "awaiting_approval">>,
   <<"awaiting_approval", "deploying">>,
   <<"awaiting_approval", "confirming">>,
   <<"deploying", "confirming">>,
   <<"confirming", "saving">>,
   <<"saving", "success">>,
   <<"success", "estimating">>}
  \cup {<<ph, "error">> : ph \in NonTerminal}

\* The step is a click of the user that asks for a deployment: Retry, a
\* Deploy button, or Deploy All.
ExplicitRetry ==
  \/ last'.op \in {"onRetry", "startDeploy"}
  \/ last'.op = "deployAll" /\ ~deployAllRun.active

\* C4: every change of the phase is a change of the phase table, or
\* error -> estimating made by an explicit retry of the user.
C4_PhaseChanges ==
  [][page'.phase # page.phase
       => \/ <<page.phase, page'.phase>> \in Forward
          \/ /\ <<page.phase, page'.phase>> = <<"error", "estimating">>
             /\ ExplicitRetry]_vars

\* The step issues a wallet request, a receipt wait, a persistence POST.
IssuesApprove == InFlight([NoCalls EXCEPT !.approve = calls'.approve])
                   > InFlight([NoCalls EXCEPT !.approve = calls.approve])
IssuesReceipt == InFlight([NoCalls EXCEPT !.receipt = calls'.receipt])
                   > InFlight([NoCalls EXCEPT !.receipt = calls.receipt])
IssuesSave == InFlight([NoCalls EXCEPT !.save = calls'.save])
                > InFlight([NoCalls EXCEPT !.save = calls.save])

\* C5: a wallet request is issued only after an Estimate call of the current
\* attempt resolved, a receipt wait only with a txHash, a persistence POST
\* only with a confirmed contract address.
C5_PhasesSerialize ==
  [][/\ IssuesApprove => attempt.estimated
     /\ IssuesReceipt => IsSome(page'.txHash)
     /\ IssuesSave => /\ IsSome(page'.confirmed)
                      /\ IsSome(Get(page'.confirmed).contractAddress)]_vars

(* ------------------------------------------------------------------ *)
(* startDeploy: failing preconditions                                 *)
(* ------------------------------------------------------------------ *)

\* A precondition of startDeploy fails for hook outputs w.
PreconditionFails(w) ==
  \/ ~w.isConnected
  \/ w.chainId # sepolia.id
  \/ ~w.publicClient
  \/ ~w.walletClient
  \/ w.balance = 0

\* The cells and the registry a failing startDeploy must leave alone.
Deployment(p) ==
  <<p.phase, p.currentName, p.error, p.gasEstimate, p.gasPrice, p.txHash,
    p.confirmed, p.deployed>>

\* The hook outputs w with one precondition of startDeploy made to fail.
Broken(w) ==
  {[w EXCEPT !.isConnected = FALSE], [w EXCEPT !.chainId = 1],
   [w EXCEPT !.publicClient = FALSE], [w EXCEPT !.walletClient = FALSE],
   [w EXCEPT !.balance = 0]}

\* C6: startDeploy called while a precondition fails leaves phase,
\* currentName, error, gas estimate, txHash, confirmed and the registry as
\* they are: for every artifact name and all hook outputs on the page as it
\* is loaded, for every artifact name and each single failing precondition on
\* the page a handler has just changed, and in every click that calls it.
C6_FailingStartDeploy ==
  [][/\ last'.op = "loadCompiledContracts"
          => \A n \in Names, w \in Web3States :
               PreconditionFails(w)
                 => Deployment(startDeploy(page', w, n)) = Deployment(page')
     /\ page'.phase # page.phase
          => \A n \in Names, w \in Broken(web3) :
               startDeploy(page', w, n) = page'
     /\ (last'.op \in {"startDeploy", "deployAll"} /\ PreconditionFails(web3))
          => Deployment(page') = Deployment(page)]_vars

\* A click called startDeploy, a guard stopped it, nothing was started.
C6_Witness ==
  /\ last.op = "startDeploy"
  /\ last.out \in {"Public client not initialized",
                   "Wallet client not available. Please reconnect."}
  /\ PreconditionFails(web3)
  /\ page.phase = "idle" /\ page.currentName = None

(* ------------------------------------------------------------------ *)
(* The happy path                                                     *)
(* ------------------------------------------------------------------ *)

\* The user starts a deployment only when none is in flight.
HappyDeployClick == \E n \in Names : ~isDeploying(page) /\ DeployClick(n)

\* Every external call succeeds: the estimate, the read of the chain id (by
\* an RPC client of the expected chain), the wallet request, the receipt
\* wait (with a contract address) and the persistence POST.
HappyEstimateSettles ==
  /\ EstimateSettlesWith({r \in EstimateResults : r.ok})
  /\ approval'.rpcChainId \in {None, Some(sepolia.id)}
HappyChainIdSettles == ChainIdSettlesWith({Some(sepolia.id)})
HappyApprovalSettles == \E n \in Names : ApprovalSettlesWith(n, {"sent"})
HappyReceiptSettles ==
  \E n \in Names :
    ReceiptSettlesWith(n, {r \in Receipts(HashOf(n)) :
                             r.ok /\ IsSome(r.contractAddress)})
HappySaveSettles == \E k \in SaveKeys : SaveSettlesWith(k, {"ok"})

HappyNext ==
  \/ LoadCompiledContracts
  \/ HappyDeployClick
  \/ HappyEstimateSettles
  \/ HappyChainIdSettles
  \/ ApprovalStart
  \/ HappyApprovalSettles
  \/ HappyReceiptSettles
  \/ HappySaveSettles

\* The user clicks START when the Approval step shows it, and every external
\* call is answered.
HappySpec ==
  /\ Init /\ [][HappyNext]_vars
  /\ WF_vars(ApprovalStart)
  /\ WF_vars(HappyEstimateSettles)
  /\ WF_vars(HappyChainIdSettles)
  /\ WF_vars(HappyApprovalSettles)
  /\ WF_vars(HappyReceiptSettles)
  /\ WF_vars(HappySaveSettles)

\* The deployment of n was started, and the precheck of the Approval step
\* has nothing against the artifact.
HappyStarted(n) ==
  /\ page.phase = "estimating" /\ page.currentName = Some(n)
  /\ Found(page, n).inputs = 0 /\ Found(page, n).longBytecode

\* The deployment of n succeeded: the registry holds the address of the
\* contract n's transaction created.
HappyEnded(n) ==
  /\ page.phase = "success"
  /\ page.deployed[n] = Some(AddressOf(HashOf(n)))

\* C7: a deployment of X started with every precondition met, with the user
\* triggering the approval and every external call succeeding, ends in phase
\* success with the registry mapping X to the receipt's contract address.
C7_HappyPath == \A n \in Names : HappyStarted(n) ~> HappyEnded(n)

\* The Save step of X has just been answered and X is in the registry.
C7_Witness ==
  /\ last.op = "onSaved"
  /\ HappyEnded(last.arg)
  /\ page.currentName = Some(last.arg)

(* ------------------------------------------------------------------ *)
(* Rejection, the registry, receipts without an address               *)
(* ------------------------------------------------------------------ *)

NoAddressMessage == "Contract address not found in receipt"

\* C10: for a receipt without a contract address waitReceipt calls onError
\* and not onConfirmed, whatever the page is, and the confirmed result the
\* page holds always has a contract address.
C10_NoAddressNoResult ==
  /\ \A n \in Names : \A r \in Receipts(HashOf(n)) :
       (r.ok /\ r.contractAddress = None)
         => /\ waitReceipt(page, r) = onError(page, NoAddressMessage)
            /\ waitReceipt(page, r).confirmed = page.confirmed
            /\ waitReceipt(page, r).phase = "error"
  /\ IsSome(page.confirmed) => IsSome(Get(page.confirmed).contractAddress)

\* A receipt without a contract address has just been turned into an error.
C10_Witness ==
  /\ last.op = "StepConfirm.onError"
  /\ page.error = Some(NoAddressMessage)
  /\ page.phase = "error"
  /\ page.confirmed = None


(* ------------------------------------------------------------------ *)
(* StepApproval: the prechecks                                        *)
(* ------------------------------------------------------------------ *)

\* The step issues a call of the wallet: deployContract, sendTransaction or
\* eth_sendTransaction.
WalletCalls(c) ==
  SumOver(c.approve, Names) + SumOver(c.sendTransaction, Names)
  + SumOver(c.eip1193, Names)
IssuesWalletCall ==
  \E n \in Names :
    \/ calls'.approve[n] > calls.approve[n]
    \/ calls'.sendTransaction[n] > calls.sendTransaction[n]
    \/ calls'.eip1193[n] > calls.eip1193[n]

\* The ABI of the artifact in deployment declares a number of constructor
\* inputs that differs from the number of arguments the page supplies (none).
ArgsMismatch(p) ==
  /\ IsSome(p.currentName) /\ Find(p, Get(p.currentName)) # {}
  /\ Found(p, Get(p.currentName)).inputs # 0

\* C11: a click on START while the number of constructor arguments differs
\* from the number of constructor inputs of the ABI reports an error (the
\* step's status is precheck_failed, the message names the mismatch and
\* reaches the page) and issues no call of the wallet.
C11_ArgsMismatchBlocks ==
  [][(last'.op = "StepApproval.deploy" /\ ArgsMismatch(page))
       => /\ "args" \in precheck(page, web3, approval)
          /\ last'.out = "precheck_failed"
          /\ IsSome(page'.error) /\ Get(page'.error) # ""
          /\ ~IssuesWalletCall
          /\ WalletCalls(calls') = WalletCalls(calls)]_vars

\* START was clicked for an ABI with one constructor input and was stopped.
C11_Witness ==
  /\ last.op = "StepApproval.deploy" /\ last.out = "precheck_failed"
  /\ ArgsMismatch(page)
  /\ page.error = Some("Constructor args mismatch: expected 1, provided 0")
  /\ WalletCalls(calls) = 0

\* C12: a click on START issues a wallet request only while the chain the
\* step's RPC client is on is Sepolia, whether the read of the chain id has
\* resolved, is still pending or has failed.
C12_NoRequestOffSepolia ==
  [][(last'.op = "StepApproval.deploy" /\ IssuesWalletCall)
       => approval.rpcChainId = Some(sepolia.id)]_vars

\* C13: a click on START that the precheck stops leaves the page's phase at
\* awaiting_approval.
C13_PrecheckKeepsPhase ==
  [][(last'.op = "StepApproval.deploy" /\ last'.out = "precheck_failed")
       => page'.phase = "awaiting_approval"]_vars

(* ------------------------------------------------------------------ *)
(* Failures of the external calls                                     *)
(* ------------------------------------------------------------------ *)

\* The errors a failed call may throw: each of shortMessage, message and
\* details present or not, the message possibly equal to the shortMessage.
Errors ==
  {Thrown(sm, m, d) : sm \in {"", "short"}, m \in {"", "short", "long"},
                      d \in {"", "details"}}

\* The steps at which a step reports the failure of its external call.
StepErrors == {"StepEstimate.onError", "StepApproval.onError",
               "StepConfirm.onError", "StepSaveAddress.onError"}

\* The page shows a failure: phase error and a message that is not empty.
Failed(p) == p.phase = "error" /\ IsSome(p.error) /\ Get(p.error) # ""

\* Whatever the call of the step that reports with op throws or is answered
\* with (a receipt without address, a status that is not ok), the step
\* reports a failure to page p.
AllReported(op, p) ==
  CASE op = "StepEstimate.onError" ->
         \A e \in Errors :
           Failed(runEstimate(p, [ok |-> FALSE, gas |-> 0, price |-> 0,
                                  err |-> e]))
    [] op = "StepApproval.onError" ->
         /\ \A e \in Errors : Failed(onError(p, normalizeDeployError(e)))
         /\ \A o \in {"rejected", "failed", "no_provider"} :
              Failed(deploy(p, names[1], o))
    [] op = "StepConfirm.onError" ->
         /\ \A e \in Errors :
              Failed(waitReceipt(p, [ok |-> FALSE, contractAddress |-> None,
                                     gasUsed |-> 0, effectiveGasPrice |-> 0,
                                     err |-> e]))
         /\ \A r \in Receipts(HashOf(names[1])) :
              r.contractAddress = None => Failed(waitReceipt(p, r))
    [] op = "StepSaveAddress.onError" ->
         \A endpoint \in {saveAddressLocal, saveAddressGithub},
            env \in NodeEnvs, o \in FetchOutcomes \ {"ok"} :
           Failed(save(p, <<names[1], names[1]>>, Fetch(endpoint, env, o)))

\* C14: when the external call of the Estimate, Approval, Confirm or Save
\* step fails, the page ends with phase error and an error message that is
\* not empty, and so it does whatever the failed call throws.
C14_FailuresReachThePage ==
  [][last'.op \in StepErrors
       => (Failed(page') /\ AllReported(last'.op, page))]_vars

\* The POST of the Save step was answered with status 500.
C14_Witness ==
  /\ last.op = "StepSaveAddress.onError"
  /\ page.phase = "error" /\ page.error = Some("Unknown error")

(* ------------------------------------------------------------------ *)
(* The persistence endpoints                                          *)
(* ------------------------------------------------------------------ *)

Forbidden == 403
ForbiddenTexts ==
  {POSTLocal("production", SaveBody, TRUE).error,
   POSTGithub("development", SaveBody, TRUE).error}

\* C15: under every NODE_ENV save-address-local answers a well-formed
\* request with 403 exactly when NODE_ENV is production and
\* save-address-github exactly when it is not, so exactly one of the two
\* accepts; the endpoint chooseDefaultEndpoint selects is the one that
\* accepts, and no POST of the Save step is answered with 403.
C15_OneEndpointAccepts ==
  /\ \A env \in NodeEnvs, works \in BOOLEAN :
       LET local == POSTLocal(env, SaveBody, works)
           github == POSTGithub(env, SaveBody, works)
           chosen == Fetch(chooseDefaultEndpoint(env), env,
                           IF works THEN "ok" ELSE "server_error")
       IN /\ local.status = Forbidden <=> env = "production"
          /\ github.status = Forbidden <=> env # "production"
          /\ (local.status = Forbidden) # (github.status = Forbidden)
          /\ chosen.status # Forbidden
          /\ works => (Ok(local) # Ok(github)) /\ Ok(chosen)
  /\ last.op \in {"onSaved", "StepSaveAddress.onError"}
       => /\ last.out \in {saveAddressLocal, saveAddressGithub}
          /\ page.error \notin {Some(t) : t \in ForbiddenTexts}

\* The page built for production has saved an address through
\* save-address-github.
C15_Witness ==
  /\ last.op = "onSaved" /\ last.out = saveAddressGithub
  /\ page.phase = "success"

(* ------------------------------------------------------------------ *)
(* Costs                                                              *)
(* ------------------------------------------------------------------ *)

\* Gas units and prices (wei per unit) over which the products are checked;
\* the code multiplies bigints, which do not overflow.
SomeGasUnits == {0, 1, 3, 21000, 1500000}
SomeGasPrices == {0, 1, 5, 7, 1000}

\* C16: when an estimate has resolved with gas units G and gas price P, the
\* page derives the estimated cost G * P; and whatever G and P the chain
\* client returns, the estimatedCost the Estimate step emits and the one the
\* page derives from the cells onEstimated sets are both G * P.
C16_EstimatedCost ==
  last.op = "onEstimated"
    => /\ \E g \in GasUnits, pr \in GasPrices :
            /\ page.gasEstimate = Some(g) /\ page.gasPrice = Some(pr)
            /\ estimatedCost(page) = Some(g * pr)
       /\ \A g \in SomeGasUnits, pr \in SomeGasPrices :
            LET res == EstimateResult(g, pr)
                p2 == runEstimate(page, [ok |-> TRUE, gas |-> g,
                                         price |-> pr])
            IN /\ res.gasEstimate = g /\ res.gasPrice = pr
               /\ res.estimatedCost = g * pr
               /\ estimatedCost(onEstimated(page, res)) = Some(g * pr)
               /\ estimatedCost(p2) = Some(g * pr)

\* An estimate of 3 units at price 5 resolved: the page derives 15.
C16_Witness ==
  /\ last.op = "onEstimated"
  /\ page.gasEstimate = Some(3) /\ page.gasPrice = Some(5)
  /\ estimatedCost(page) = Some(15)

\* C17: when a receipt with gasUsed U, effectiveGasPrice E and a contract
\* address has been confirmed, the DeploymentResult the page holds has
\* actualCost U * E, gasUsed U and effectiveGasPrice E; and so has the
\* result the Confirm step emits for whatever U and E the receipt carries.
C17_ActualCost ==
  last.op = "onConfirmed"
    => /\ \E u \in GasUsed, e \in EffectiveGasPrices :
            /\ Get(page.confirmed).gasUsed = u
            /\ Get(page.confirmed).effectiveGasPrice = e
            /\ Get(page.confirmed).actualCost = u * e
       /\ \A u \in SomeGasUnits, e \in SomeGasPrices, n \in Names :
            LET r == [ok |-> TRUE,
                      contractAddress |-> Some(AddressOf(HashOf(n))),
                      gasUsed |-> u, effectiveGasPrice |-> e]
                res == Get(waitReceipt(page, r).confirmed)
            IN /\ res.actualCost = u * e
               /\ res.gasUsed = u /\ res.effectiveGasPrice = e
               /\ res.contractAddress = r.contractAddress

\* A receipt with gasUsed 2 and effectiveGasPrice 7 was confirmed: 14.
C17_Witness ==
  /\ last.op = "onConfirmed" /\ page.phase = "saving"
  /\ Get(page.confirmed).gasUsed = 2
  /\ Get(page.confirmed).effectiveGasPrice = 7
  /\ Get(page.confirmed).actualCost = 14

(* ------------------------------------------------------------------ *)
(* StepApproval: the order of the wallet calls                        *)
(* ------------------------------------------------------------------ *)

\* C18: deployContract is called by a click on START alone; sendTransaction
\* is called only in the step in which a deployContract call for the same
\* bytecode failed as not implemented or not available; eth_sendTransaction
\* only in the step in which a sendTransaction call for the same bytecode
\* failed; and a deployContract call that fails in another way, a rejection
\* by the user for one, ends in error with no further wallet call.
C18_WalletCallOrder ==
  [][\A n \in Names :
       /\ calls'.approve[n] > calls.approve[n]
            => /\ last'.op = "StepApproval.deploy"
               /\ calls'.sendTransaction = calls.sendTransaction
               /\ calls'.eip1193 = calls.eip1193
       /\ calls'.sendTransaction[n] > calls.sendTransaction[n]
            => /\ calls'.approve[n] = calls.approve[n] - 1
               /\ last' = Did("fallbackSendCreation", n, "not_available")
               /\ calls'.eip1193 = calls.eip1193
               /\ page' = page
       /\ calls'.eip1193[n] > calls.eip1193[n]
            => /\ calls'.sendTransaction[n] = calls.sendTransaction[n] - 1
               /\ calls'.approve = calls.approve
               /\ last'.op = "fallbackEip1193Send"
               /\ page' = page
       /\ (/\ calls'.approve[n] < calls.approve[n]
           /\ last'.out \in {"rejected", "failed"})
            => /\ ~IssuesWalletCall
               /\ last'.op = "StepApproval.onError"
               /\ Failed(page')]_vars

\* deployContract failed as not available, sendTransaction failed, and the
\* eth_sendTransaction request is with the wallet.
C18_Witness ==
  /\ last.op = "fallbackEip1193Send"
  /\ calls.eip1193[last.arg] = 1
  /\ calls.approve[last.arg] = 0 /\ calls.sendTransaction[last.arg] = 0
  /\ page.phase = "awaiting_approval" /\ page.currentName = Some(last.arg)

(* ------------------------------------------------------------------ *)
(* Retry and recovery                                                 *)
(* ------------------------------------------------------------------ *)

\* C19: a click on Retry leaves the page without gas estimate: gasEstimate
\* and gasPrice are null, and so is the estimated cost derived from them.
C19_RetryDiscardsEstimate ==
  [][last'.op = "onRetry"
       => /\ page'.gasEstimate = None /\ page'.gasPrice = None
          /\ estimatedCost(page') = None]_vars

\* C20: the phase leaves error only by a click of the user on Retry, on a
\* Deploy button or on Deploy All.
C20_ErrorUntilRetry ==
  [][(page.phase = "error" /\ page'.phase # "error") => ExplicitRetry]_vars

(* ------------------------------------------------------------------ *)
(* The progress list                                                  *)
(* ------------------------------------------------------------------ *)

\* The phases that have a step in the list, in the order of the list.
StepPhases == <<"estimating", "awaiting_approval", "deploying",
                "confirming", "saving">>

\* The list with step k active, the steps before it complete and the steps
\* after it pending.
ActiveAt(k) ==
  [i \in 1..5 |-> IF i < k THEN "complete"
                  ELSE IF i = k THEN "active" ELSE "pending"]

\* C21: the list is a function of the phase alone: in the phase of step k
\* that step is active, the earlier steps are complete and the later ones
\* pending; in phase success all five are complete, in phase idle all five
\* are pending.  Checked for every phase, and for the phase of the page in
\* every state.
C21_ProgressOfPhase ==
  /\ \A k \in 1..5 : steps(StepPhases[k]) = ActiveAt(k)
  /\ steps("success") = [i \in 1..5 |-> "complete"]
  /\ steps("idle") = [i \in 1..5 |-> "pending"]
  /\ \A k \in 1..5 : page.phase = StepPhases[k]
                        => steps(page.phase) = ActiveAt(k)

\* The list is shown in phase confirming: three steps complete, the fourth
\* active, the fifth pending.
C21_Witness ==
  /\ ProgressShown(page, web3) /\ page.phase = "confirming"
  /\ steps(page.phase)
       = <<"complete", "complete", "complete", "active", "pending">>

\* C27: in phase error the list shows a step with status error, and not
\* all five steps as complete.
C27_ErrorStepShown ==
  (ProgressShown(page, web3) /\ page.phase = "error")
    => /\ \E i \in 1..5 : steps(page.phase)[i] = "error"
       /\ \E i \in 1..5 : steps(page.phase)[i] # "complete"

(* ------------------------------------------------------------------ *)
(* WalletGuard                                                        *)
(* ------------------------------------------------------------------ *)

\* C22: for every value of the prop strict, WalletGuard renders its
\* children only when the wallet is connected with an address on the
\* expected chain.
C22_ChildrenOnlyWhenReady ==
  \A strict \in BOOLEAN : WalletGuardChildren(web3, strict) => ready(web3)

(* ------------------------------------------------------------------ *)
(* upsertEnvVar                                                       *)
(* ------------------------------------------------------------------ *)

\* C28: after any sequence of upsertEnvVar calls on a file that starts
\* empty the file holds exactly one line for every key upserted, with the
\* value of the last call for that key, and no other line; one more call
\* leaves the lines of the other keys as they are, and applying the same
\* call twice gives the same content as applying it once.
C28_UpsertOneLinePerKey ==
  /\ \A k \in EnvKeys :
       linesOf(envFile.content, k)
         = IF IsSome(envFile.upserted[k])
           THEN <<Line(k, Get(envFile.upserted[k]))>> ELSE <<>>
  /\ \A i \in 1..Len(envFile.content.lines) :
       envFile.content.lines[i].key \in EnvKeys
  /\ \A k \in EnvKeys : \A v \in EnvValues :
       LET once == upsertEnvVar(envFile.content, k, v)
       IN /\ upsertEnvVar(once, k, v) = once
          /\ \A k2 \in EnvKeys \ {k} :
               linesOf(once, k2) = linesOf(envFile.content, k2)

\* Every key has been upserted and one of them more than once.
C28_Witness ==
  /\ \A k \in EnvKeys : IsSome(envFile.upserted[k])
  /\ envFile.count > Len(envFile.content.lines)
  /\ Len(envFile.content.lines) = Cardinality(EnvKeys)

(* ------------------------------------------------------------------ *)
(* save-address-local: overlapping requests                           *)
(* ------------------------------------------------------------------ *)

\* The file holds the line the request asked for.
TookEffect(content, req) ==
  linesOf(content, sanitizeNameToEnvKey(req.name))
    = <<Line(sanitizeNameToEnvKey(req.name), req.address)>>

\* C26: when two requests for different names (with different keys) have
\* both been answered 200, the file holds the line of each of them.
C26_BothTakeEffect ==
  \A r1 \in Requests : \A r2 \in Requests \ {r1} :
    LET a == localRoute.reqs[r1]
        b == localRoute.reqs[r2]
    IN (/\ a.pc = "done" /\ a.status = 200
        /\ b.pc = "done" /\ b.status = 200
        /\ sanitizeNameToEnvKey(a.name) # sanitizeNameToEnvKey(b.name))
       => TookEffect(localRoute.content, a) /\ TookEffect(localRoute.content, b)

(* ------------------------------------------------------------------ *)
(* save-address-github: the 409 conflict                              *)
(* ------------------------------------------------------------------ *)

\* Request r writes the file in this step.
Writes(r) ==
  /\ githubRoute'.file # githubRoute.file
  /\ githubRoute'.reqs[r] # githubRoute.reqs[r]

\* C23: a request issues a second PUT only after its first PUT was
\* answered 409 and the file was fetched again, and never a third; the
\* second PUT carries the sha just fetched and the upsert on the content
\* just fetched; when it fails the request is answered 500.  Whenever a
\* request writes the file, the new content is the upsert of its own key
\* on the content the file had: the lines of every other key, those of
\* other writers included, stay as they were.
C23_ConflictRetriedOnce ==
  [][\A r \in Requests :
       LET req == githubRoute.reqs[r]
           req2 == githubRoute'.reqs[r]
           key == sanitizeNameToEnvKey(req.name)
       IN /\ req2.puts <= 2
          /\ (req2.puts = 2 /\ req.puts = 1)
               => /\ req.pc = "retry" /\ req2.pc = "done"
                  /\ IsSome(req.latest.sha)
                  /\ req2.status = IF githubRoute'.file = githubRoute.file
                                   THEN 500 ELSE 200
          /\ req.pc = "refetch" => req.puts = 1
          /\ Writes(r)
               => /\ githubRoute'.file.content
                       = upsertEnvVar(githubRoute.file.content, key,
                                      req.address)
                  /\ \A k \in EnvKeys \ {key} :
                       linesOf(githubRoute'.file.content, k)
                         = linesOf(githubRoute.file.content, k)
                  /\ req2.status = 200]_vars

\* A request was answered 200 after a second PUT, and the file holds its
\* line next to the line of another key.
C23_Witness ==
  \E r \in Requests :
    LET req == githubRoute.reqs[r]
        key == sanitizeNameToEnvKey(req.name)
    IN /\ req.pc = "done" /\ req.status = 200 /\ req.puts = 2
       /\ linesOf(githubRoute.file.content, key) = <<Line(key, req.address)>>
       /\ \E k \in EnvKeys \ {key} : linesOf(githubRoute.file.content, k) # <<>>

(* ------------------------------------------------------------------ *)
(* The registry and the artifact of the transaction                   *)
(* ------------------------------------------------------------------ *)

\* C24: an address the registry holds for artifact n is the contract
\* address of a receipt for a creation transaction that carried the
\* bytecode of n.
C24_RegistryOwnBytecode ==
  \A n \in Names :
    IsSome(page.deployed[n]) => Get(page.deployed[n]) = AddressOf(HashOf(n))

(* ------------------------------------------------------------------ *)
(* One creation transaction per artifact                              *)
(* ------------------------------------------------------------------ *)

\* The page holds the id of a creation transaction of artifact n: one was
\* obtained since the deployment of n was started.
HoldsTransactionOf(p, n) == IsSome(p.txHash) /\ Get(p.txHash) = HashOf(n)

\* C25: while the page holds the id of a creation transaction of artifact
\* n, a retry included, no further creation transaction of n is handed to
\* the wallet.
C25_OneCreationPerArtifact ==
  [][\A n \in Names :
       calls'.approve[n] > calls.approve[n] => ~HoldsTransactionOf(page, n)]_vars

(* ------------------------------------------------------------------ *)
(* StepApproval: a rejection ends the attempt                         *)
(* ------------------------------------------------------------------ *)

\* C29: after the user rejected the prompt of the sendTransaction
\* fallback, no eth_sendTransaction request is issued for that attempt.
C29_NoPromptAfterRejection ==
  [][\A n \in Names :
       (calls'.eip1193[n] > calls.eip1193[n]) => last'.out # "rejected"]_vars

(* ------------------------------------------------------------------ *)
(* PropertyToken: the supply                                          *)
(* ------------------------------------------------------------------ *)

RECURSIVE SumOfBalances(_, _)
SumOfBalances(balanceOf, S) ==
  IF S = {} THEN 0
  ELSE LET a == CHOOSE x \in S : TRUE
       IN balanceOf[a] + SumOfBalances(balanceOf, S \ {a})

\* The storage apart from the record of the last call.
Storage(t) == [t EXCEPT !.last = NoToken.last]

====
